---- MODULE Spec2Model ----
(***************************************************************************)
(* Download orchestration core of ircEbooks: the Queue Manager             *)
(* (queue_manager.py), the protocol state machine IRCEbookClient and the   *)
(* Queue Processor thread (irc_client.py), and the GUI handlers that call  *)
(* into them (gui.py).                                                     *)
(*                                                                         *)
(* Threads: the Tk main thread runs the GUI handlers (guiPc), the Queue    *)
(* Processor thread runs QueueProcessorThread.run (procPc), the transport  *)
(* dispatch thread runs the on_* handlers, and every search runs           *)
(* _search_thread on a thread of its own.                                  *)
(*                                                                         *)
(* A step is one Queue Manager or client operation, or the part of a       *)
(* handler between two reads of shared state that another thread can       *)
(* change: request_book is add / test of the mode / process_queue,         *)
(* _cancel_current is read of the mode / cancellation, the processor loop  *)
(* is its own test / process_queue, a search is the GUI's test and thread  *)
(* start / do_search / the wake-up after search_complete.wait().           *)
(*                                                                         *)
(* Spec runs do_search and on_dcc_disconnect as one step each.  SpecBooks  *)
(* and SpecSearches run them in two steps (do_search up to its send / its  *)
(* write of the mode; on_dcc_disconnect's reset of mode and counters / the *)
(* finalisation that follows it) and record the history of every DCC       *)
(* stream in streams.  SpecTransfer has the GUI poll the progress of a     *)
(* transfer whose opens, connects and writes can fail.  SpecQM has one     *)
(* caller make every call of the Queue Manager's API.                      *)
(* SpecProcessor is SpecBooks with the processor's stop event and weak     *)
(* fairness of the processor thread; SpecResolve is SpecBooks with every   *)
(* thread running and peers that answer.  SpecLocks follows only the       *)
(* acquisitions and releases of the two mutexes.                           *)
(***************************************************************************)
EXTENDS Integers, Sequences, FiniteSets, TLC

\* ---- bounds of the model ------------------------------------------------
MaxItems == 2          \* QueueItems created by add
MaxHistory == 2        \* entries of the completed list
MaxSent == 2           \* channel messages sent
MaxSends == 2          \* destination files opened by DCC SEND events
MaxThreads == 1        \* search threads alive at a time
MaxCallbacks == 2      \* callbacks registered with the Queue Manager

Users == {"alice"}
Filenames == {"book1", "book2"}
SearchTexts == {"dune"}
DccNames == {"file1"}
DccSizes == {"2"}                      \* size tokens of DCC SEND payloads
bot_nick == "me"                       \* config.bot_nick
Targets == {bot_nick, "#ebooks"}       \* targets of inbound CTCP events
Outcomes == {"ok", "open_fail", "connect_fail"}

\* CTCP payloads, as their shlex tokens: well-formed DCC SENDs, then one with
\* 4 tokens, one with 6, one whose first token is not SEND, one without SEND
DccPayloads ==
    {<<"SEND", n, "ip", "port", z>> : n \in DccNames, z \in DccSizes}
    \cup {<<"SEND", "file1", "ip", "port">>,
          <<"SEND", "file1", "ip", "port", "2", "x">>,
          <<"RESEND", "file1", "ip", "port", "2">>,
          <<"VERSION">>}

\* inbound CTCP events: every payload to every target.  The dispatch thread
\* of the model delivers CtcpEvents, one event for every way through on_ctcp
\* that the targets and payloads provide: a well-formed DCC SEND to the bot and
\* to the channel, and a payload of 4 tokens.
AllCtcpEvents == Targets \X DccPayloads
CtcpEvents ==
    {<<t, <<"SEND", n, "ip", "port", z>>>> :
        t \in Targets, n \in DccNames, z \in DccSizes}
    \cup {<<bot_nick, <<"SEND", "file1", "ip", "port">>>>}

ChunkSizes == {1}
MaxBytes == 1          \* bytes received in one transfer

None == 0              \* Python None for an item, file or connection

\* the threads of the program and its two mutexes: IRCEbookClient._lock and
\* QueueManager._lock
Threads == {"dispatch", "processor", "gui", "search"}
Locks == {"client", "qm"}

\* ---- state --------------------------------------------------------------
VARIABLES
    items,               \* the QueueItem objects created so far, by identity
    queue,               \* QueueManager._queue      (identities, head first)
    completed,           \* QueueManager._completed  (identities)
    current,             \* QueueManager._current
    waiting_for_file,    \* IRCEbookClient._waiting_for_file
    current_item,        \* IRCEbookClient._current_item
    latest_filename,     \* IRCEbookClient._latest_filename
    received_bytes,      \* IRCEbookClient._received_bytes
    total_bytes,         \* IRCEbookClient._total_bytes
    file_handle,         \* IRCEbookClient._file_handle
    dcc_connection,      \* IRCEbookClient._dcc_connection
    search_complete,     \* IRCEbookClient.search_complete (threading.Event)
    search_result,       \* IRCEbookClient.search_result
    search_in_progress,  \* EbookFetcherGUI._search_in_progress
    sent,                \* messages sent to the channel, oldest first
    lastAck,             \* the acknowledgement sent last on a DCC connection
    openFiles,           \* destination files opened and not yet closed by close()
    dccConns,            \* DCC byte-streams connected and not yet disconnected
    nSend,               \* destination files opened so far
    streams,             \* record of the byte-streams, kept by SpecBooks and
                         \* SpecSearches:
                         \* per opened file its name, the bytes its peer has
                         \* delivered, whether a cancel has orphaned it
    dispPc,              \* position of the transport dispatch thread
    file_type,           \* local variable file_type of on_dcc_disconnect
    connection,          \* argument connection of on_dcc_disconnect
    guiPc,               \* position of the Tk main thread
    guiArg,              \* local variable of the running GUI handler
    procPc,              \* position of the Queue Processor thread
    spawned,             \* search texts of the threads started that have not called do_search yet
    searching,           \* search threads inside do_search, after its send
    waiting,             \* search threads blocked in search_complete.wait()
    callbacks,           \* QueueManager._callbacks
    qm_lock,             \* QueueManager._lock is held
    call,                \* the Queue Manager call of the API caller, and what
                         \* the caller sees of it
    progress,            \* the get_download_progress call of the GUI thread
    stop_event,          \* QueueProcessorThread._stop_event is set
    locks,               \* SpecLocks: the owner of each mutex, and per thread the
                         \* acquisitions and releases its running call has left
    lastOp               \* the operation executed last

qmVars == <<items, queue, completed, current>>
clientVars == <<waiting_for_file, current_item, latest_filename, received_bytes,
                total_bytes, file_handle, dcc_connection, search_complete,
                search_result>>
dccVars == <<latest_filename, received_bytes, total_bytes, file_handle,
             dcc_connection, lastAck, openFiles, dccConns, nSend>>
reqVars == <<waiting_for_file, current_item>>
resultVars == <<search_complete, search_result>>
guiVars == <<guiPc, guiArg>>
searchThreads == <<spawned, searching, waiting>>
dispVars == <<dispPc, file_type, connection>>
apiVars == <<callbacks, qm_lock, call, progress, stop_event, locks>>
threadVars == <<guiPc, guiArg, procPc, spawned, searching, waiting, dispPc,
                file_type, connection>>
vars == <<items, queue, completed, current, waiting_for_file, current_item,
          latest_filename, received_bytes, total_bytes, file_handle,
          dcc_connection, search_complete, search_result, search_in_progress,
          sent, lastAck, openFiles, dccConns, nSend, streams,
          dispPc, file_type, connection, guiPc, guiArg, procPc, spawned,
          searching, waiting, callbacks, qm_lock, call, progress,
          stop_event, locks, lastOp>>

\* ---- values -------------------------------------------------------------
NoPath == <<>>                         \* search_result / _latest_filename None
NoResults == <<"NoResults">>
SavePath(name) == <<"workdir", name>>  \* working_directory / Path(name).name

\* str(path): the text of a path, "None" for Python None
StrPath(path) == IF path = NoPath THEN <<"None">> ELSE path

Command(user, filename) == <<"!", user, " ", filename>>
SearchMessage(text) == <<"@search", " ", text>>

\* no Queue Manager call made yet / no progress call made yet
NoCall == [op |-> "none", arg |-> None, success |-> TRUE, pc |-> "done",
           ret |-> None, notified |-> <<>>, raising |-> {}, raised |-> FALSE]
NoProgress == [percentage |-> 0, ret |-> <<>>]

QueueItem(user, filename) ==
    [user |-> user, filename |-> filename,
     command |-> Command(user, filename), status |-> "pending"]

\* dataclass equality of two QueueItems: field by field, not identity
ItemEq(its, a, b) ==
    /\ its[a].user = its[b].user
    /\ its[a].filename = its[b].filename
    /\ its[a].command = its[b].command
    /\ its[a].status = its[b].status

Swap(q, i, j) == [q EXCEPT ![i] = q[j], ![j] = q[i]]
RemoveAt(q, i) == SubSeq(q, 1, i - 1) \o SubSeq(q, i + 1, Len(q))

\* lastOp names the client operation a step has just executed, "other" for
\* the steps that are not one of the client's public operations
Did(name) == lastOp' = name

\* ---- initial state ------------------------------------------------------
Init ==
    /\ items = <<>>
    /\ queue = <<>>
    /\ completed = <<>>
    /\ current = None
    /\ waiting_for_file = "None"
    /\ current_item = None
    /\ latest_filename = NoPath
    /\ received_bytes = 0
    /\ total_bytes = 0
    /\ file_handle = None
    /\ dcc_connection = None
    /\ search_complete = FALSE
    /\ search_result = NoPath
    /\ search_in_progress = FALSE
    /\ sent = <<>>
    /\ lastAck = [conn |-> None, value |-> 0]
    /\ openFiles = {}
    /\ dccConns = {}
    /\ nSend = 0
    /\ streams = <<>>
    /\ dispPc = "idle"
    /\ file_type = "None"
    /\ connection = None
    /\ guiPc = "idle"
    /\ guiArg = "None"
    /\ procPc = "loop"
    /\ spawned = <<>>
    /\ searching = 0
    /\ waiting = 0
    /\ callbacks = <<"_on_queue_changed">>
    /\ stop_event = FALSE
    /\ locks = [owner |-> [l \in Locks |-> "free"],
                todo |-> [t \in Threads |-> <<>>]]
    /\ qm_lock = FALSE
    /\ call = NoCall
    /\ progress = NoProgress
    /\ lastOp = "init"

\* ---- Queue Manager (queue_manager.py) -----------------------------------
\* (mutant of add: the item is put at the head, as appendleft would)
add_front(user, filename) ==
    /\ items' = Append(items, QueueItem(user, filename))
    /\ queue' = <<Len(items) + 1>> \o queue

\* add: a new pending item is appended to the live queue
add(user, filename) ==
    /\ items' = Append(items, QueueItem(user, filename))
    /\ queue' = Append(queue, Len(items) + 1)

\* (mutant of peek_next_item: the last item, as self._queue[-1] would)
peek_next_item_last == IF queue # <<>> THEN queue[Len(queue)] ELSE None

\* peek_next: the head item, marked downloading, not removed; None when empty
peek_next_item == IF queue # <<>> THEN queue[1] ELSE None

peek_next ==
    items' = IF queue # <<>>
             THEN [items EXCEPT ![queue[1]].status = "downloading"]
             ELSE items

\* (mutant of mark_completed: the item is put at the front of the history)
mark_completed_front(item, success) ==
    LET its == [items EXCEPT ![item].status =
                    IF success THEN "completed" ELSE "failed"]
    IN /\ items' = its
       /\ completed' = <<item>> \o completed
       /\ queue' = IF queue # <<>> /\ ItemEq(its, queue[1], item)
                   THEN Tail(queue)
                   ELSE queue

\* mark_completed: status, history, and the pop guarded by queue[0] == item
mark_completed(item, success) ==
    LET its == [items EXCEPT ![item].status =
                    IF success THEN "completed" ELSE "failed"]
    IN /\ items' = its
       /\ completed' = Append(completed, item)
       /\ queue' = IF queue # <<>> /\ ItemEq(its, queue[1], item)
                   THEN Tail(queue)
                   ELSE queue

\* remove / move_up / move_down take the 0-based index of the Python code
remove(index) ==
    queue' = IF 0 <= index /\ index < Len(queue)
             THEN RemoveAt(queue, index + 1)
             ELSE queue

move_up(index) ==
    queue' = IF 0 < index /\ index < Len(queue)
             THEN Swap(queue, index + 1, index)
             ELSE queue

move_down(index) ==
    queue' = IF 0 <= index /\ index < Len(queue) - 1
             THEN Swap(queue, index + 1, index + 2)
             ELSE queue

clear == queue' = <<>>

\* get_next: the head item is popped and marked downloading
get_next ==
    /\ items' = IF queue # <<>>
                THEN [items EXCEPT ![queue[1]].status = "downloading"]
                ELSE items
    /\ queue' = IF queue # <<>> THEN Tail(queue) ELSE queue

\* the flags removed / moved that remove, move_up and move_down return
remove_ret(index) == 0 <= index /\ index < Len(queue)
move_up_ret(index) == 0 < index /\ index < Len(queue)
move_down_ret(index) == 0 <= index /\ index < Len(queue) - 1

\* (mutant of notifies: remove, move_up and move_down notify whatever their
\* flag is)
notifies_always(op, ret) ==
    op \in {"add", "mark_completed", "clear", "set_current", "remove",
            "move_up", "move_down"}

\* whether an operation that returns ret calls _notify_callbacks after its
\* with-block: add, mark_completed, clear and set_current always; remove,
\* move_up and move_down when their flag is set; get_next when it has an
\* item; peek_next and the getters never
notifies(op, ret) ==
    CASE op \in {"add", "mark_completed", "clear", "set_current"} -> TRUE
      [] op \in {"remove", "move_up", "move_down"} -> ret
      [] op = "get_next" -> ret # None
      [] OTHER -> FALSE

\* (mutant of notify_callbacks: without the try/except around callback())
notify_callbacks_uncaught(raising) ==
    LET n == Len(callbacks)
        bad == {i \in 1 .. n : i \in raising}
        first == CHOOSE i \in bad : \A j \in bad : i <= j
    IN IF bad = {}
       THEN [notified |-> [i \in 1 .. n |-> i], raised |-> FALSE]
       ELSE [notified |-> [i \in 1 .. first |-> i], raised |-> TRUE]

\* _notify_callbacks: every registered callback is called, in order of
\* registration; raising is the set of those that raise an Exception, which
\* is caught and logged.  The result: the callbacks called, and whether an
\* exception leaves _notify_callbacks
notify_callbacks(raising) ==
    [notified |-> [i \in 1 .. Len(callbacks) |-> i], raised |-> FALSE]

set_current(item) == current' = item

\* ---- IRCEbookClient (irc_client.py) -------------------------------------
send_channel_message(message) == sent' = Append(sent, message)

\* process_queue: start the head item when idle and the queue is non-empty
process_queue ==
    IF waiting_for_file = "None" /\ queue # <<>>
    THEN /\ Len(sent) < MaxSent
         /\ peek_next
         /\ current_item' = peek_next_item
         /\ set_current(peek_next_item)
         /\ send_channel_message(items[peek_next_item].command)
         /\ waiting_for_file' = "Book"
         /\ UNCHANGED <<queue, completed>>
    ELSE UNCHANGED <<items, queue, completed, current, current_item, sent,
                     waiting_for_file>>

\* (mutant of do_search: the result slot is not reset)
do_search_stale(search_text) ==
    /\ Len(sent) < MaxSent
    /\ search_complete' = FALSE
    /\ search_result' = search_result
    /\ send_channel_message(SearchMessage(search_text))

\* do_search up to its send (lines 159-163): clear the event, reset the
\* result, send
do_search(search_text) ==
    /\ Len(sent) < MaxSent
    /\ search_complete' = FALSE
    /\ search_result' = NoPath
    /\ send_channel_message(SearchMessage(search_text))

\* the last line of do_search (line 164): the mode is written after the send
do_search_set_mode == waiting_for_file' = "Search"

\* (mutant of cancel_current_download: the mode is reset only with a current item)
cancel_current_download_guarded ==
    IF current_item # None
    THEN /\ Len(completed) < MaxHistory
         /\ mark_completed(current_item, FALSE)
         /\ set_current(None)
         /\ current_item' = None
         /\ waiting_for_file' = "None"
    ELSE UNCHANGED <<items, queue, completed, current, current_item,
                     waiting_for_file>>

\* cancel_current_download: fail the current item, if any, and reset the mode
cancel_current_download ==
    /\ IF current_item # None
       THEN /\ Len(completed) < MaxHistory
            /\ mark_completed(current_item, FALSE)
            /\ set_current(None)
            /\ current_item' = None
       ELSE UNCHANGED <<items, queue, completed, current, current_item>>
    /\ waiting_for_file' = "None"

\* IRCEbookClient._lock is held across steps only by get_download_progress
\* (lines 314-319); every other holder takes and releases it within a step
client_lock == guiPc \in {"progress_divide", "progress_return"}

\* ---- transport events, run one at a time on the dispatch thread ---------
\* on_privnotice: a no-results notice resets the mode and fires the event
on_privnotice(no_matches) ==
    /\ dispPc = "idle"
    /\ IF no_matches
       THEN /\ waiting_for_file' = "None"
            /\ search_result' = NoResults
            /\ search_complete' = TRUE
       ELSE UNCHANGED <<waiting_for_file, search_result, search_complete>>
    /\ Did("other")
    /\ UNCHANGED apiVars
    /\ UNCHANGED <<qmVars, current_item, dccVars, streams, search_in_progress,
                   sent, threadVars>>

\* "SEND" in payload: the payload is kept as its shlex tokens, and the words
\* of the model that contain SEND are SEND and RESEND
HasSend(payload) ==
    \E i \in 1 .. Len(payload) : payload[i] \in {"SEND", "RESEND"}

\* int(size) of the size token
int(token) == CASE token = "1" -> 1 [] token = "2" -> 2 [] token = "3" -> 3

\* (mutant of on_ctcp_path: the target of the event is not looked at)
on_ctcp_path_any_target(target, payload) ==
    IF ~HasSend(payload) THEN "return"
    ELSE IF Len(payload) < 5 THEN "return"
    ELSE IF Len(payload) # 5 THEN "raise"
    ELSE IF payload[1] # "SEND" THEN "return"
    ELSE "proceed"

\* the way on_ctcp and _handle_dcc_send take through their early returns:
\* other target, no SEND, fewer than 5 tokens, the 5-way unpacking (ValueError,
\* caught in on_ctcp), a first token that is not SEND
on_ctcp_path(target, payload) ==
    IF target # bot_nick THEN "return"
    ELSE IF ~HasSend(payload) THEN "return"
    ELSE IF Len(payload) < 5 THEN "return"
    ELSE IF Len(payload) # 5 THEN "raise"
    ELSE IF payload[1] # "SEND" THEN "return"
    ELSE "proceed"

\* the client and stream state that a DCC SEND can write
dcc_state ==
    [latest_filename |-> latest_filename, total_bytes |-> total_bytes,
     received_bytes |-> received_bytes, file_handle |-> file_handle,
     dcc_connection |-> dcc_connection, openFiles |-> openFiles,
     dccConns |-> dccConns, nSend |-> nSend]

\* _handle_dcc_send past its checks (lines 230-251).  outcome is what the
\* system makes of it: "open_fail" (open raises), "connect_fail" (dcc_connect
\* raises), "ok"
dcc_send(payload, outcome) ==
    LET id == nSend + 1
        opened == outcome # "open_fail"
        connected == outcome = "ok"
    IN [latest_filename |-> SavePath(payload[2]),
        total_bytes |-> int(payload[5]),
        received_bytes |-> 0,
        file_handle |-> IF opened THEN id ELSE file_handle,
        openFiles |-> IF opened THEN openFiles \cup {id} ELSE openFiles,
        nSend |-> IF opened THEN id ELSE nSend,
        dcc_connection |-> IF connected THEN id ELSE dcc_connection,
        dccConns |-> IF connected THEN dccConns \cup {id} ELSE dccConns]

on_ctcp_result(target, payload, outcome) ==
    IF on_ctcp_path(target, payload) = "proceed"
    THEN dcc_send(payload, outcome)
    ELSE dcc_state

\* on_ctcp, but for the record of the streams
on_ctcp(target, payload, outcome) ==
    /\ dispPc = "idle"
    /\ on_ctcp_path(target, payload) = "proceed" => ~client_lock
    /\ (on_ctcp_path(target, payload) = "proceed" /\ outcome # "open_fail")
          => nSend < MaxSends
    /\ LET r == on_ctcp_result(target, payload, outcome)
       IN /\ latest_filename' = r.latest_filename
          /\ total_bytes' = r.total_bytes
          /\ received_bytes' = r.received_bytes
          /\ file_handle' = r.file_handle
          /\ dcc_connection' = r.dcc_connection
          /\ openFiles' = r.openFiles
          /\ dccConns' = r.dccConns
          /\ nSend' = r.nSend
    /\ Did("other")
    /\ UNCHANGED apiVars
    /\ UNCHANGED <<qmVars, reqVars, resultVars, lastAck, search_in_progress,
                   sent, threadVars>>

\* on_dccmsg, but for the record of the streams: a chunk of data_len bytes
\* arrives on a live byte-stream.  outcome is what the system makes of
\* write(): "ok", or "write_fail" (write raises).  The handler catches nothing:
\* a failing write, and send_bytes on a _dcc_connection that is None, leave it
\* as an exception
on_dccmsg(conn, data_len, outcome) ==
    /\ dispPc = "idle"
    /\ conn \in dccConns
    /\ IF file_handle = None
       THEN UNCHANGED <<received_bytes, lastAck, dispPc>>
       ELSE IF outcome = "write_fail"
       THEN /\ dispPc' = "raised"
            /\ UNCHANGED <<received_bytes, lastAck>>
       ELSE /\ received_bytes + data_len <= MaxBytes
            /\ received_bytes' = received_bytes + data_len
            /\ IF dcc_connection # None
               THEN /\ lastAck' = [conn |-> dcc_connection,
                                   value |-> received_bytes + data_len]
                    /\ UNCHANGED dispPc
               ELSE /\ dispPc' = "raised"
                    /\ UNCHANGED lastAck
    /\ Did("other")
    /\ UNCHANGED apiVars
    /\ UNCHANGED <<qmVars, reqVars, resultVars, latest_filename, total_bytes,
                   file_handle, dcc_connection, openFiles, dccConns, nSend,
                   search_in_progress, sent, guiVars, procPc, searchThreads,
                   file_type, connection>>

\* (mutant of dcc_disconnect_reset: the byte counters are left as they are)
dcc_disconnect_reset_mode_only(conn) ==
    /\ dccConns' = dccConns \ {conn}
    /\ file_handle' = None
    /\ openFiles' = openFiles \ {file_handle}
    /\ waiting_for_file' = "None"
    /\ UNCHANGED <<received_bytes, total_bytes>>

\* on_dcc_disconnect up to the write of the mode (lines 264-277), the last
\* line that takes the client's lock: the byte-stream is gone, the file of
\* _file_handle is closed
dcc_disconnect_close(conn) ==
    /\ dccConns' = dccConns \ {conn}
    /\ file_handle' = None
    /\ openFiles' = openFiles \ {file_handle}
    /\ waiting_for_file' = "None"

\* the reset of the counters (lines 278-279), written without the lock
dcc_disconnect_zero ==
    /\ received_bytes' = 0
    /\ total_bytes' = 0

\* on_dcc_disconnect up to the reset of mode and counters (lines 264-279)
dcc_disconnect_reset(conn) ==
    /\ dcc_disconnect_close(conn)
    /\ dcc_disconnect_zero

\* (mutant of dcc_disconnect_finalize: the result is recorded in every mode)
dcc_disconnect_finalize_any_mode(type) ==
    /\ search_result' = StrPath(latest_filename)
    /\ search_complete' = TRUE
    /\ UNCHANGED <<qmVars, current_item>>

\* the rest of on_dcc_disconnect (lines 281-292), with the mode it has read
\* into file_type: the search result, or the completion of the current item
dcc_disconnect_finalize(type) ==
    IF type = "Search"
    THEN /\ search_result' = StrPath(latest_filename)
         /\ search_complete' = TRUE
         /\ UNCHANGED <<qmVars, current_item>>
    ELSE IF type = "Book" /\ current_item # None
    THEN /\ Len(completed) < MaxHistory
         /\ mark_completed(current_item, TRUE)
         /\ set_current(None)
         /\ current_item' = None
         /\ UNCHANGED <<search_result, search_complete>>
    ELSE UNCHANGED <<qmVars, current_item, search_result, search_complete>>

\* on_dcc_disconnect, run without another thread in between
on_dcc_disconnect(conn) ==
    /\ dispPc = "idle"
    /\ conn \in dccConns
    /\ dcc_disconnect_reset(conn)
    /\ dcc_disconnect_finalize(waiting_for_file)
    /\ Did("other")
    /\ UNCHANGED apiVars
    /\ UNCHANGED <<latest_filename, dcc_connection, lastAck, nSend, streams,
                   search_in_progress, sent, threadVars>>

\* ---- Queue Processor thread (QueueProcessorThread.run) ------------------
\* the tests of an iteration that calls process_queue: the stop event is not
\* set (line 345), the mode is Idle and the queue not empty (line 346).  An
\* iteration whose second test fails changes nothing.
\* (mutant of ProcCheck: the test of the mode inverted)
ProcCheck_busy ==
    /\ procPc = "loop"
    /\ ~stop_event
    /\ waiting_for_file # "None" /\ queue # <<>>
    /\ procPc' = "call"
    /\ Did("other")
    /\ UNCHANGED apiVars
    /\ UNCHANGED <<qmVars, clientVars, lastAck, openFiles, dccConns, nSend,
                   streams, search_in_progress, sent, guiVars,
                   searchThreads, dispVars>>

ProcCheck ==
    /\ procPc = "loop"
    /\ ~stop_event
    /\ waiting_for_file = "None" /\ queue # <<>>
    /\ procPc' = "call"
    /\ Did("other")
    /\ UNCHANGED apiVars
    /\ UNCHANGED <<qmVars, clientVars, lastAck, openFiles, dccConns, nSend,
                   streams, search_in_progress, sent, guiVars,
                   searchThreads, dispVars>>

\* (mutant of ProcCall: the iteration ends without the call of process_queue)
ProcCall_skipped ==
    /\ procPc = "call"
    /\ procPc' = "loop"
    /\ Did("process_queue_noop")
    /\ UNCHANGED apiVars
    /\ UNCHANGED <<qmVars, clientVars, lastAck, openFiles, dccConns, nSend,
                   streams, search_in_progress, sent, guiVars,
                   searchThreads, dispVars>>

ProcCall ==
    /\ procPc = "call"
    /\ process_queue
    /\ procPc' = "loop"
    /\ Did(IF waiting_for_file = "None" /\ queue # <<>> THEN "process_queue"
           ELSE "process_queue_noop")
    /\ UNCHANGED apiVars
    /\ UNCHANGED <<dccVars, streams, resultVars, search_in_progress, guiVars,
                   searchThreads, dispVars>>

\* (mutant of ProcExit: the thread is ended wherever it is)
ProcExit_anywhere ==
    /\ procPc \in {"loop", "call"}
    /\ stop_event
    /\ procPc' = "stopped"
    /\ Did("other")
    /\ UNCHANGED <<callbacks, qm_lock, call, progress, stop_event, locks>>
    /\ UNCHANGED <<qmVars, clientVars, lastAck, openFiles, dccConns, nSend,
                   streams, search_in_progress, sent, guiVars,
                   searchThreads, dispVars>>

\* the loop test finds the stop event set: run returns, the thread ends
ProcExit ==
    /\ procPc = "loop"
    /\ stop_event
    /\ procPc' = "stopped"
    /\ Did("other")
    /\ UNCHANGED <<callbacks, qm_lock, call, progress, stop_event, locks>>
    /\ UNCHANGED <<qmVars, clientVars, lastAck, openFiles, dccConns, nSend,
                   streams, search_in_progress, sent, guiVars,
                   searchThreads, dispVars>>

\* QueueProcessorThread.stop, called by any thread: it only sets the event
stop ==
    /\ ~stop_event
    /\ stop_event' = TRUE
    /\ Did("other")
    /\ UNCHANGED <<callbacks, qm_lock, call, progress, locks>>
    /\ UNCHANGED <<qmVars, clientVars, lastAck, openFiles, dccConns, nSend,
                   streams, search_in_progress, sent, threadVars>>

\* ---- GUI handlers, run one at a time on the Tk main thread --------------
\* _request_book -> request_book: first the add ...
RequestBookAdd(user, filename) ==
    /\ guiPc = "idle"
    /\ Len(items) < MaxItems
    /\ add(user, filename)
    /\ guiPc' = "request_book"
    /\ Did("add")
    /\ UNCHANGED apiVars
    /\ UNCHANGED <<completed, current, clientVars, lastAck, openFiles, dccConns,
                   nSend, streams, search_in_progress, sent, guiArg,
                   procPc, searchThreads, dispVars>>

\* ... then the test of the mode (line 139) ...
RequestBookTest ==
    /\ guiPc = "request_book"
    /\ guiPc' = IF waiting_for_file = "None" THEN "request_book_call" ELSE "idle"
    /\ Did(IF waiting_for_file = "None" THEN "other" ELSE "request_book_busy")
    /\ UNCHANGED apiVars
    /\ UNCHANGED <<qmVars, clientVars, lastAck, openFiles, dccConns, nSend,
                   streams, search_in_progress, sent, guiArg,
                   procPc, searchThreads, dispVars>>

\* ... and the call of process_queue (line 140)
RequestBookDrain ==
    /\ guiPc = "request_book_call"
    /\ process_queue
    /\ guiPc' = "idle"
    /\ Did(IF waiting_for_file = "None" /\ queue # <<>> THEN "request_book"
           ELSE "request_book_noop")
    /\ UNCHANGED apiVars
    /\ UNCHANGED <<dccVars, streams, resultVars, search_in_progress, guiArg,
                   procPc, searchThreads, dispVars>>

\* _cancel_current: the read of the mode (lines 517-518) ...
CancelTest ==
    /\ guiPc = "idle"
    /\ IF waiting_for_file # "None"
       THEN guiPc' = "cancel" /\ guiArg' = waiting_for_file
       ELSE UNCHANGED <<guiPc, guiArg>>
    /\ Did("other")
    /\ UNCHANGED apiVars
    /\ UNCHANGED <<qmVars, clientVars, lastAck, openFiles, dccConns, nSend,
                   streams, search_in_progress, sent, procPc,
                   searchThreads, dispVars>>

\* ... and the cancellation itself (lines 520-533), but for the record of
\* the streams
cancel_current ==
    /\ guiPc = "cancel"
    /\ IF guiArg = "Book"
       THEN /\ cancel_current_download
            /\ Did("cancel_current_download")
            /\ UNCHANGED search_in_progress
       ELSE /\ search_in_progress' = IF guiArg = "Search" THEN FALSE
                                     ELSE search_in_progress
            /\ waiting_for_file' = "None"
            /\ Did("cancel_search")
            /\ UNCHANGED <<qmVars, current_item>>
    /\ guiPc' = "idle"
    /\ guiArg' = "None"
    /\ UNCHANGED apiVars
    /\ UNCHANGED <<dccVars, resultVars, sent, procPc, searchThreads, dispVars>>

CancelAct == cancel_current /\ UNCHANGED streams

\* index adjustment shared by _move_queue_up/_move_queue_down/_remove_from_queue:
\* with a current item, row 0 is refused and the row number is decremented
GuiRefused(selection) == current # None /\ selection = 0
GuiIndex(selection) == IF current # None THEN selection - 1 ELSE selection

MoveQueueUp(selection) ==
    /\ guiPc = "idle"
    /\ selection \in 0 .. Len(queue) - 1
    /\ IF GuiRefused(selection) THEN UNCHANGED queue
       ELSE move_up(GuiIndex(selection))
    /\ Did("other")
    /\ UNCHANGED apiVars
    /\ UNCHANGED <<items, completed, current, clientVars, lastAck, openFiles,
                   dccConns, nSend, streams, search_in_progress,
                   sent, threadVars>>

MoveQueueDown(selection) ==
    /\ guiPc = "idle"
    /\ selection \in 0 .. Len(queue) - 1
    /\ IF GuiRefused(selection) THEN UNCHANGED queue
       ELSE move_down(GuiIndex(selection))
    /\ Did("other")
    /\ UNCHANGED apiVars
    /\ UNCHANGED <<items, completed, current, clientVars, lastAck, openFiles,
                   dccConns, nSend, streams, search_in_progress,
                   sent, threadVars>>

RemoveFromQueue(selection) ==
    /\ guiPc = "idle"
    /\ selection \in 0 .. Len(queue) - 1
    /\ IF GuiRefused(selection) THEN UNCHANGED queue
       ELSE remove(GuiIndex(selection))
    /\ Did("other")
    /\ UNCHANGED apiVars
    /\ UNCHANGED <<items, completed, current, clientVars, lastAck, openFiles,
                   dccConns, nSend, streams, search_in_progress,
                   sent, threadVars>>

ClearQueue ==
    /\ guiPc = "idle"
    /\ clear
    /\ Did("other")
    /\ UNCHANGED apiVars
    /\ UNCHANGED <<items, completed, current, clientVars, lastAck, openFiles,
                   dccConns, nSend, streams, search_in_progress,
                   sent, threadVars>>

\* (received / total) * 100 of line 316, for total # 0; the sizes of the
\* model divide without remainder
percent(received, total) == (received * 100) \div total

\* _force_status_update in mode Book (gui.py line 654) calls
\* get_download_progress: the lock is taken and _total_bytes is tested (lines
\* 314-315) ...
ProgressTest ==
    /\ guiPc = "idle"
    /\ waiting_for_file = "Book"
    /\ IF total_bytes > 0
       THEN guiPc' = "progress_divide" /\ UNCHANGED progress
       ELSE /\ guiPc' = "progress_return"
            /\ progress' = [progress EXCEPT !.percentage = 0]
    /\ Did("other")
    /\ UNCHANGED <<callbacks, qm_lock, call, stop_event, locks>>
    /\ UNCHANGED <<qmVars, clientVars, lastAck, openFiles, dccConns, nSend,
                   streams, search_in_progress, sent, guiArg, procPc,
                   searchThreads, dispVars>>

\* ... the division reads both counters again (line 316); dividing by 0
\* raises ZeroDivisionError, which leaves the call ...
ProgressDivide ==
    /\ guiPc = "progress_divide"
    /\ IF total_bytes = 0
       THEN /\ guiPc' = "idle"
            /\ progress' = [progress EXCEPT !.ret = <<"ZeroDivisionError">>]
            /\ Did("get_download_progress")
       ELSE /\ guiPc' = "progress_return"
            /\ progress' = [progress EXCEPT !.percentage =
                                percent(received_bytes, total_bytes)]
            /\ Did("other")
    /\ UNCHANGED <<callbacks, qm_lock, call, stop_event, locks>>
    /\ UNCHANGED <<qmVars, clientVars, lastAck, openFiles, dccConns, nSend,
                   streams, search_in_progress, sent, guiArg, procPc,
                   searchThreads, dispVars>>

\* ... and the tuple is built from the counters as they are then (line 319)
ProgressReturn ==
    /\ guiPc = "progress_return"
    /\ guiPc' = "idle"
    /\ progress' = [progress EXCEPT !.ret = <<received_bytes, total_bytes,
                                              progress.percentage>>]
    /\ Did("get_download_progress")
    /\ UNCHANGED <<callbacks, qm_lock, call, stop_event, locks>>
    /\ UNCHANGED <<qmVars, clientVars, lastAck, openFiles, dccConns, nSend,
                   streams, search_in_progress, sent, guiArg, procPc,
                   searchThreads, dispVars>>

\* _do_search: refuse when busy, else start a search thread
DoSearchClick(search_text) ==
    /\ guiPc = "idle"
    /\ IF waiting_for_file # "None"
       THEN UNCHANGED <<search_in_progress, spawned>>
       ELSE /\ Len(spawned) + searching + waiting < MaxThreads
            /\ search_in_progress' = TRUE
            /\ spawned' = Append(spawned, search_text)
    /\ Did("other")
    /\ UNCHANGED apiVars
    /\ UNCHANGED <<qmVars, clientVars, lastAck, openFiles, dccConns, nSend,
                   streams, sent, guiVars, procPc, searching,
                   waiting, dispVars>>

\* ---- search threads (_search_thread) ------------------------------------
\* the thread calls do_search and blocks in search_complete.wait()
SearchThreadStart(t) ==
    /\ t \in 1 .. Len(spawned)
    /\ do_search(spawned[t])
    /\ do_search_set_mode
    /\ spawned' = RemoveAt(spawned, t)
    /\ waiting' = waiting + 1
    /\ Did("do_search")
    /\ UNCHANGED apiVars
    /\ UNCHANGED <<qmVars, current_item, dccVars, streams, search_in_progress,
                   guiVars, procPc, searching, dispVars>>

\* the wait returns once the event is set; every path of the rest of the
\* thread leaves _search_in_progress False
SearchThreadWake ==
    /\ waiting > 0
    /\ search_complete
    /\ waiting' = waiting - 1
    /\ search_in_progress' = FALSE
    /\ Did("other")
    /\ UNCHANGED apiVars
    /\ UNCHANGED <<qmVars, clientVars, lastAck, openFiles, dccConns, nSend,
                   streams, sent, guiVars, procPc, spawned,
                   searching, dispVars>>

\* ---- specification ------------------------------------------------------
\* the events of the dispatch thread as Spec takes them: no record of streams
OnCtcp(target, payload, outcome) ==
    on_ctcp(target, payload, outcome) /\ UNCHANGED streams

\* the system decides an outcome only for an event that gets as far as open
OutcomesOf(target, payload) ==
    IF on_ctcp_path(target, payload) = "proceed" THEN Outcomes ELSE {"ok"}

\* Spec takes the chunks whose write succeeds
OnDccMsg(conn, data_len) ==
    on_dccmsg(conn, data_len, "ok") /\ UNCHANGED streams

\* every handler and client operation runs as one step, but for the steps of
\* request_book, _cancel_current and the processor loop
Next ==
    \/ \E u \in Users, f \in Filenames : RequestBookAdd(u, f)
    \/ RequestBookTest
    \/ RequestBookDrain
    \/ CancelTest
    \/ CancelAct
    \/ \E i \in 0 .. MaxItems - 1 : MoveQueueUp(i)
    \/ \E i \in 0 .. MaxItems - 1 : MoveQueueDown(i)
    \/ \E i \in 0 .. MaxItems - 1 : RemoveFromQueue(i)
    \/ ClearQueue
    \/ \E t \in SearchTexts : DoSearchClick(t)
    \/ \E t \in 1 .. MaxThreads : SearchThreadStart(t)
    \/ SearchThreadWake
    \/ ProcCheck
    \/ ProcCall
    \/ \E m \in BOOLEAN : on_privnotice(m)
    \/ \E e \in CtcpEvents : \E o \in OutcomesOf(e[1], e[2]) :
          OnCtcp(e[1], e[2], o)
    \/ \E c \in 1 .. MaxSends, l \in ChunkSizes : OnDccMsg(c, l)
    \/ \E c \in 1 .. MaxSends : on_dcc_disconnect(c)

Spec == Init /\ [][Next]_vars

\* ---- the transport side in detail --------------------------------------
\* SpecBooks and SpecSearches follow every byte-stream (its file name, the
\* bytes its peer has delivered, whether a cancel has orphaned it) and run
\* do_search and on_dcc_disconnect in the two steps in which other threads see
\* them: up to the send / the write of the mode, and the reset of the mode /
\* the finalisation.  SpecBooks has the threads that serve the queue,
\* SpecSearches those that serve a search; transfers do not fail, the queue is
\* not reordered.
StreamNames == {"file1", "file2"}
StreamSends(names) ==
    {<<bot_nick, <<"SEND", n, "ip", "port", z>>>> : n \in names, z \in DccSizes}

StreamCtcp(target, payload) ==
    /\ on_ctcp(target, payload, "ok")
    /\ streams' = IF on_ctcp_path(target, payload) = "proceed"
                  THEN Append(streams, [name |-> payload[2], delivered |-> 0,
                                        orphaned |-> FALSE])
                  ELSE streams

StreamDccMsg(conn, data_len) ==
    /\ on_dccmsg(conn, data_len, "ok")
    /\ streams[conn].delivered + data_len <= MaxBytes
    /\ streams' = [streams EXCEPT ![conn].delivered = @ + data_len]

StreamCancelAct ==
    /\ cancel_current
    /\ streams' = [c \in 1 .. Len(streams) |->
                      IF c \in dccConns
                      THEN [streams[c] EXCEPT !.orphaned = TRUE]
                      ELSE streams[c]]

\* on_dcc_disconnect, first step (lines 264-279)
DisconnectReset(conn) ==
    /\ dispPc = "idle"
    /\ conn \in dccConns
    /\ dcc_disconnect_reset(conn)
    /\ file_type' = waiting_for_file
    /\ connection' = conn
    /\ dispPc' = "finalize"
    /\ Did("other")
    /\ UNCHANGED apiVars
    /\ UNCHANGED <<qmVars, current_item, resultVars, latest_filename,
                   dcc_connection, lastAck, nSend, streams, search_in_progress,
                   sent, guiVars, procPc, searchThreads>>

\* on_dcc_disconnect, second step (lines 281-292)
DisconnectFinalize ==
    /\ dispPc = "finalize"
    /\ dcc_disconnect_finalize(file_type)
    /\ dispPc' = "idle"
    /\ file_type' = "None"
    /\ connection' = None
    /\ Did("other")
    /\ UNCHANGED apiVars
    /\ UNCHANGED <<waiting_for_file, dccVars, streams, search_in_progress, sent,
                   guiVars, procPc, searchThreads>>

\* do_search, first step (lines 159-163)
SearchThreadSend(t) ==
    /\ t \in 1 .. Len(spawned)
    /\ do_search(spawned[t])
    /\ spawned' = RemoveAt(spawned, t)
    /\ searching' = searching + 1
    /\ Did("other")
    /\ UNCHANGED apiVars
    /\ UNCHANGED <<qmVars, reqVars, dccVars, streams, search_in_progress,
                   guiVars, procPc, waiting, dispVars>>

\* do_search, second step (line 164); the thread then blocks in
\* search_complete.wait()
SearchThreadSetMode ==
    /\ searching > 0
    /\ do_search_set_mode
    /\ searching' = searching - 1
    /\ waiting' = waiting + 1
    /\ Did("do_search")
    /\ UNCHANGED apiVars
    /\ UNCHANGED <<qmVars, current_item, resultVars, dccVars, streams,
                   search_in_progress, sent, guiVars, procPc, spawned, dispVars>>

NextBooks ==
    \/ \E u \in Users, f \in Filenames : RequestBookAdd(u, f)
    \/ RequestBookTest
    \/ RequestBookDrain
    \/ CancelTest
    \/ StreamCancelAct
    \/ ProcCheck
    \/ ProcCall
    \/ \E e \in StreamSends(DccNames) : StreamCtcp(e[1], e[2])
    \/ \E c \in 1 .. MaxSends, l \in ChunkSizes : StreamDccMsg(c, l)
    \/ \E c \in 1 .. MaxSends : DisconnectReset(c)
    \/ DisconnectFinalize

SpecBooks == Init /\ [][NextBooks]_vars

\* ---- the Queue Processor thread under fairness -------------------------
\* SpecProcessor is SpecBooks with the stop event: any thread may call stop,
\* and the processor thread leaves its loop when it finds the event set.  The
\* thread is a running Python thread that sleeps one second per iteration, so
\* each of its steps is taken if it stays possible: weak fairness of the loop
\* test, of the call of process_queue and of the exit.
NextProcessor ==
    \/ \E u \in Users, f \in Filenames : RequestBookAdd(u, f)
    \/ RequestBookTest
    \/ RequestBookDrain
    \/ CancelTest
    \/ StreamCancelAct
    \/ ProcCheck
    \/ ProcCall
    \/ ProcExit
    \/ stop
    \/ \E e \in StreamSends(DccNames) : StreamCtcp(e[1], e[2])
    \/ \E c \in 1 .. MaxSends, l \in ChunkSizes : StreamDccMsg(c, l)
    \/ \E c \in 1 .. MaxSends : DisconnectReset(c)
    \/ DisconnectFinalize

ProcessorFair ==
    /\ WF_vars(ProcCheck)
    /\ WF_vars(ProcCall)
    /\ WF_vars(ProcExit)

SpecProcessor == Init /\ [][NextProcessor]_vars /\ ProcessorFair

\* SpecResolve is SpecBooks with a running Queue Processor, a running
\* dispatch thread and a GUI thread that finishes request_book, and with peers
\* that answer: a book command that is outstanding with no byte-stream
\* connected is followed by a DCC SEND, and a connected byte-stream by its
\* disconnect.
PeerSend ==
    /\ waiting_for_file = "Book"
    /\ dccConns = {}
    /\ \E e \in StreamSends(DccNames) : StreamCtcp(e[1], e[2])

ResolveFair ==
    /\ WF_vars(ProcCheck)
    /\ WF_vars(ProcCall)
    /\ WF_vars(RequestBookTest)
    /\ WF_vars(RequestBookDrain)
    /\ WF_vars(PeerSend)
    /\ \A c \in 1 .. MaxSends : WF_vars(DisconnectReset(c))
    /\ WF_vars(DisconnectFinalize)

SpecResolve == Init /\ [][NextBooks]_vars /\ ResolveFair

NextSearches ==
    \/ \E t \in SearchTexts : DoSearchClick(t)
    \/ \E t \in 1 .. MaxThreads : SearchThreadSend(t)
    \/ SearchThreadSetMode
    \/ SearchThreadWake
    \/ CancelTest
    \/ StreamCancelAct
    \/ on_privnotice(TRUE)
    \/ \E e \in StreamSends(StreamNames) : StreamCtcp(e[1], e[2])
    \/ \E c \in 1 .. MaxSends, l \in ChunkSizes : StreamDccMsg(c, l)
    \/ \E c \in 1 .. MaxSends : DisconnectReset(c)
    \/ DisconnectFinalize

SpecSearches == Init /\ [][NextSearches]_vars

\* ---- a transfer with its failures and the status poll --------------------
\* SpecTransfer has the GUI thread request books and poll the progress of the
\* download every 200 ms, in the steps of get_download_progress, while the
\* dispatch thread handles the DCC events of the transfer: opens, connects and
\* writes can fail, and on_dcc_disconnect runs in two steps, up to its last
\* use of the client's lock (line 277) and from there on.
WriteOutcomes == {"ok", "write_fail"}

TransferDccMsg(conn, data_len, outcome) ==
    on_dccmsg(conn, data_len, outcome) /\ UNCHANGED streams

\* on_dcc_disconnect, lines 264-277
DisconnectClose(conn) ==
    /\ dispPc = "idle"
    /\ ~client_lock
    /\ conn \in dccConns
    /\ dcc_disconnect_close(conn)
    /\ file_type' = waiting_for_file
    /\ connection' = conn
    /\ dispPc' = "counters"
    /\ Did("other")
    /\ UNCHANGED apiVars
    /\ UNCHANGED <<qmVars, current_item, resultVars, latest_filename,
                   received_bytes, total_bytes, dcc_connection, lastAck, nSend,
                   streams, search_in_progress, sent, guiVars, procPc,
                   searchThreads>>

\* on_dcc_disconnect, lines 278-292
DisconnectRest ==
    /\ dispPc = "counters"
    /\ dcc_disconnect_zero
    /\ dcc_disconnect_finalize(file_type)
    /\ dispPc' = "idle"
    /\ file_type' = "None"
    /\ connection' = None
    /\ Did("other")
    /\ UNCHANGED apiVars
    /\ UNCHANGED <<waiting_for_file, latest_filename, file_handle,
                   dcc_connection, lastAck, openFiles, dccConns, nSend, streams,
                   search_in_progress, sent, guiVars, procPc, searchThreads>>

NextTransfer ==
    \/ \E u \in Users, f \in Filenames : RequestBookAdd(u, f)
    \/ RequestBookTest
    \/ RequestBookDrain
    \/ ProgressTest
    \/ ProgressDivide
    \/ ProgressReturn
    \/ \E e \in StreamSends(DccNames), o \in Outcomes : OnCtcp(e[1], e[2], o)
    \/ \E c \in 1 .. MaxSends, l \in ChunkSizes, o \in WriteOutcomes :
          TransferDccMsg(c, l, o)
    \/ \E c \in 1 .. MaxSends : DisconnectClose(c)
    \/ DisconnectRest

SpecTransfer == Init /\ [][NextTransfer]_vars

\* ---- the Queue Manager through its API -----------------------------------
\* SpecQM has one caller make every call of the Queue Manager's API with every
\* argument, as the client, the GUI and any other user of the class can.  A
\* call is two steps: the body of its with-block, which ends with the lock
\* still held, and its return, which releases the lock and then notifies the
\* callbacks if the operation does so.
nonQmVars == <<clientVars, lastAck, openFiles, dccConns, nSend, streams,
               search_in_progress, sent, threadVars, progress, stop_event,
               locks>>

\* the caller enters the with-block of operation op
Enter(op, arg, success, ret) ==
    /\ call.pc = "done"
    /\ ~qm_lock
    /\ qm_lock' = TRUE
    /\ call' = [op |-> op, arg |-> arg, success |-> success, pc |-> "locked",
                ret |-> ret, notified |-> <<>>, raising |-> {},
                raised |-> FALSE]
    /\ Did("other")
    /\ UNCHANGED <<callbacks, nonQmVars>>

QmAdd(user, filename) ==
    /\ Len(items) < MaxItems
    /\ add(user, filename)
    /\ Enter("add", None, TRUE, None)
    /\ UNCHANGED <<completed, current>>

\* (mutant of QmPeekNext: the head is popped, as get_next does)
QmPeekNextPops ==
    /\ get_next
    /\ Enter("peek_next", None, TRUE, peek_next_item)
    /\ UNCHANGED <<completed, current>>

QmPeekNext ==
    /\ peek_next
    /\ Enter("peek_next", None, TRUE, peek_next_item)
    /\ UNCHANGED <<queue, completed, current>>

QmGetNext ==
    /\ get_next
    /\ Enter("get_next", None, TRUE, peek_next_item)
    /\ UNCHANGED <<completed, current>>

QmMarkCompleted(item, success) ==
    /\ item \in 1 .. Len(items)
    /\ Len(completed) < MaxHistory
    /\ mark_completed(item, success)
    /\ Enter("mark_completed", item, success, None)
    /\ UNCHANGED current

QmRemove(index) ==
    /\ remove(index)
    /\ Enter("remove", index, TRUE, remove_ret(index))
    /\ UNCHANGED <<items, completed, current>>

QmMoveUp(index) ==
    /\ move_up(index)
    /\ Enter("move_up", index, TRUE, move_up_ret(index))
    /\ UNCHANGED <<items, completed, current>>

QmMoveDown(index) ==
    /\ move_down(index)
    /\ Enter("move_down", index, TRUE, move_down_ret(index))
    /\ UNCHANGED <<items, completed, current>>

QmClear ==
    /\ clear
    /\ Enter("clear", None, TRUE, None)
    /\ UNCHANGED <<items, completed, current>>

QmSetCurrent(item) ==
    /\ item \in 0 .. Len(items)
    /\ set_current(item)
    /\ Enter("set_current", item, TRUE, None)
    /\ UNCHANGED <<items, queue, completed>>

QmGetCurrent ==
    /\ Enter("get_current", None, TRUE, current)
    /\ UNCHANGED qmVars

\* register_callback appends to _callbacks, without lock and notification
QmRegisterCallback ==
    /\ call.pc = "done"
    /\ Len(callbacks) < MaxCallbacks
    /\ callbacks' = Append(callbacks, "subscriber")
    /\ Did("other")
    /\ UNCHANGED <<qmVars, qm_lock, call, nonQmVars>>

\* the callbacks that can raise in a notification
Raising == IF notifies(call.op, call.ret)
           THEN SUBSET (1 .. Len(callbacks))
           ELSE {{}}

\* the with-block is left, the lock released, the callbacks notified if the
\* operation does so, and the call returns
QmReturn(raising) ==
    /\ call.pc = "locked"
    /\ raising \in Raising
    /\ qm_lock' = FALSE
    /\ LET r == IF notifies(call.op, call.ret)
                THEN notify_callbacks(raising)
                ELSE [notified |-> <<>>, raised |-> FALSE]
       IN call' = [call EXCEPT !.pc = "done", !.notified = r.notified,
                               !.raising = raising, !.raised = r.raised]
    /\ Did("other")
    /\ UNCHANGED <<qmVars, callbacks, nonQmVars>>

NextQM ==
    \/ \E u \in Users, f \in Filenames : QmAdd(u, f)
    \/ QmPeekNext
    \/ QmGetNext
    \/ \E i \in 1 .. MaxItems, b \in BOOLEAN : QmMarkCompleted(i, b)
    \/ \E i \in -1 .. MaxItems : QmRemove(i)
    \/ \E i \in -1 .. MaxItems : QmMoveUp(i)
    \/ \E i \in -1 .. MaxItems : QmMoveDown(i)
    \/ QmClear
    \/ \E i \in 0 .. MaxItems : QmSetCurrent(i)
    \/ QmGetCurrent
    \/ QmRegisterCallback
    \/ \E r \in SUBSET (1 .. MaxCallbacks) : QmReturn(r)

SpecQM == Init /\ [][NextQM]_vars

\* ---- the two mutexes ---------------------------------------------------
\* SpecLocks follows nothing but the locks.  Every call is the sequence of
\* acquisitions and releases on the path it takes through the source; the path
\* is chosen when the call begins.  threading.Lock is not reentrant: an
\* acquisition waits while the lock has an owner, whoever that is.
With(l) == <<<<"acquire", l>>, <<"release", l>>>>

\* the waiting_for_file property (lines 57-58, 63-64), latest_filename and
\* get_download_progress: one with-block on the client's lock
lock_client == With("client")

\* every Queue Manager method: one with-block on its lock; _notify_callbacks
\* is called after the block, and the registered callback (_on_queue_changed)
\* only schedules a refresh with root.after
lock_qm == With("qm")

\* process_queue: the getter; is_empty; peek_next; set_current and the setter
lock_process_queue ==
    { lock_client,
      lock_client \o lock_qm,
      lock_client \o lock_qm \o lock_qm,
      lock_client \o lock_qm \o lock_qm \o lock_qm \o lock_client }

\* request_book: add, the getter, process_queue
lock_request_book ==
    { lock_qm \o lock_client }
        \cup { lock_qm \o lock_client \o p : p \in lock_process_queue }

\* one iteration of QueueProcessorThread.run: the getter, is_empty and
\* process_queue (lines 346-348), size in the debug line (line 354)
lock_run ==
    LET tests == { lock_client, lock_client \o lock_qm }
                     \cup { lock_client \o lock_qm \o p :
                               p \in lock_process_queue }
    IN  tests \cup { t \o lock_qm : t \in tests }

\* on_privnotice writes the mode through the setter when the text matches
lock_on_privnotice == { lock_client }

\* _handle_dcc_send: the with-block of lines 242-246, open() inside it
lock_handle_dcc_send == { lock_client }

\* (mutant of lock_on_dcc_disconnect: mark_completed and set_current are
\* called inside a with-block on the client's lock)
lock_on_dcc_disconnect_nested ==
    { lock_client \o lock_client,
      lock_client \o <<<<"acquire", "client">>>> \o lock_qm \o lock_qm
          \o <<<<"release", "client">>>> }

\* on_dcc_disconnect: the getter (268), the setter (277), and for a book
\* mark_completed (286) and set_current (288)
lock_on_dcc_disconnect ==
    { lock_client \o lock_client,
      lock_client \o lock_client \o lock_qm \o lock_qm }

\* cancel_current_download: mark_completed and set_current if there is a
\* current item, then the setter
lock_cancel_current_download ==
    { lock_client, lock_qm \o lock_qm \o lock_client }

\* _cancel_current (gui.py 517-532): the getter twice, then the setter or
\* cancel_current_download
lock_cancel_current ==
    { lock_client }
        \cup { lock_client \o lock_client \o p :
                  p \in lock_cancel_current_download }

\* _force_status_update (gui.py 651-672): get_status, the getter, and for a
\* book get_download_progress
lock_force_status_update ==
    { lock_qm \o lock_client, lock_qm \o lock_client \o lock_client }

\* the queue buttons (gui.py 573-635): get_current and move_up, move_down or
\* remove; clear alone; the refresh reads get_queue_items and get_current
lock_queue_buttons == { lock_qm, lock_qm \o lock_qm }

\* do_search writes the mode through the setter (line 164)
lock_do_search == { lock_client }

\* the calls a thread makes
LockPrograms(t) ==
    CASE t = "dispatch" ->
            lock_on_privnotice \cup lock_handle_dcc_send
                \cup lock_on_dcc_disconnect
      [] t = "processor" -> lock_run
      [] t = "gui" ->
            lock_request_book \cup lock_cancel_current
                \cup lock_force_status_update \cup lock_queue_buttons
      [] OTHER -> lock_do_search

\* the variables that the lock steps leave alone
belowLocks == <<qmVars, clientVars, lastAck, openFiles, dccConns, nSend, streams,
                search_in_progress, sent, threadVars, callbacks, qm_lock, call,
                progress, stop_event>>

\* thread t begins a call
LockBegin(t, program) ==
    /\ locks.todo[t] = <<>>
    /\ program \in LockPrograms(t)
    /\ locks' = [locks EXCEPT !.todo[t] = program]
    /\ Did("other")
    /\ UNCHANGED belowLocks

\* thread t enters a with-block: the lock must be free
LockAcquire(t) ==
    /\ locks.todo[t] # <<>>
    /\ Head(locks.todo[t])[1] = "acquire"
    /\ locks.owner[Head(locks.todo[t])[2]] = "free"
    /\ locks' = [locks EXCEPT !.owner[Head(locks.todo[t])[2]] = t,
                              !.todo[t] = Tail(@)]
    /\ Did("other")
    /\ UNCHANGED belowLocks

\* thread t leaves a with-block
LockRelease(t) ==
    /\ locks.todo[t] # <<>>
    /\ Head(locks.todo[t])[1] = "release"
    /\ locks' = [locks EXCEPT !.owner[Head(locks.todo[t])[2]] = "free",
                              !.todo[t] = Tail(@)]
    /\ Did("other")
    /\ UNCHANGED belowLocks

AllLockPrograms == UNION { LockPrograms(t) : t \in Threads }

NextLocks ==
    \/ \E t \in Threads, program \in AllLockPrograms : LockBegin(t, program)
    \/ \E t \in Threads : LockAcquire(t)
    \/ \E t \in Threads : LockRelease(t)

\* every thread runs on: a with-block is left, and a thread that waits for a
\* lock that is released again and again gets it
LocksFair ==
    \A t \in Threads : SF_vars(LockAcquire(t)) /\ WF_vars(LockRelease(t))

SpecLocks == Init /\ [][NextLocks]_vars /\ LocksFair

TypeOK ==
    /\ Len(items) <= MaxItems
    /\ \A i \in 1 .. Len(items) :
          items[i].status \in {"pending", "downloading", "completed", "failed"}
    /\ \A i \in 1 .. Len(queue) : queue[i] \in 1 .. Len(items)
    /\ \A i \in 1 .. Len(completed) : completed[i] \in 1 .. Len(items)
    /\ Len(completed) <= MaxHistory
    /\ current \in 0 .. Len(items)
    /\ current_item \in 0 .. Len(items)
    /\ waiting_for_file \in {"None", "Search", "Book"}
    /\ Len(sent) <= MaxSent
    /\ received_bytes \in 0 .. MaxBytes
    /\ Len(streams) \in {0, nSend}
    /\ dispPc \in {"idle", "finalize", "counters", "raised"}
    /\ file_type \in {"None", "Search", "Book"}
    /\ connection \in 0 .. nSend
    /\ file_handle \in 0 .. nSend
    /\ dcc_connection \in 0 .. nSend
    /\ openFiles \subseteq 1 .. nSend
    /\ dccConns \subseteq 1 .. nSend
    /\ nSend \in 0 .. MaxSends
    /\ guiPc \in {"idle", "request_book", "request_book_call", "cancel",
                  "progress_divide", "progress_return"}
    /\ guiArg \in {"None", "Search", "Book"}
    /\ procPc \in {"loop", "call", "stopped"}
    /\ stop_event \in BOOLEAN
    /\ locks.owner \in [Locks -> Threads \cup {"free"}]
    /\ DOMAIN locks.todo = Threads
    /\ Len(spawned) + searching + waiting <= MaxThreads
    /\ Len(callbacks) \in 1 .. MaxCallbacks
    /\ qm_lock \in BOOLEAN
    /\ qm_lock <=> call.pc = "locked"
    /\ call.op \in {"none", "add", "peek_next", "get_next", "mark_completed",
                     "remove", "move_up", "move_down", "clear", "set_current",
                     "get_current"}
    /\ \E n \in 0 .. Len(callbacks) : call.notified = [i \in 1 .. n |-> i]
    /\ ~call.raised

\* ---- properties ---------------------------------------------------------
Status(i) == items[i].status
Downloading == {k \in 1 .. Len(queue) : Status(queue[k]) = "downloading"}

\* C1: the live queue never holds more than one item whose status is
\* Downloading.
C1_AtMostOneDownloading == Cardinality(Downloading) <= 1

\* C2: no move_up or move_down changes the position of a Downloading item.  A
\* move is the only step that changes the live queue and keeps its length.
C2_MovesKeepDownloading ==
    [][(Len(queue') = Len(queue) /\ queue' # queue)
          => \A k \in Downloading : queue'[k] = queue[k]]_vars

\* C3: the status of every item only moves forward along
\* Pending -> Downloading -> {Completed, Failed}.
Rank(status) ==
    CASE status = "pending" -> 0
      [] status = "downloading" -> 1
      [] OTHER -> 2

C3_StatusForward ==
    [][\A i \in 1 .. Len(items) :
          /\ Rank(items'[i].status) >= Rank(Status(i))
          /\ Rank(Status(i)) = 2 => items'[i].status = Status(i)]_vars

\* C4: at most one transfer session exists at a time: never two connected DCC
\* byte-streams, never two open destination files.
C4_SingleTransfer == Cardinality(dccConns) <= 1 /\ Cardinality(openFiles) <= 1

\* C5: a search or book command is sent to the channel only while no earlier
\* request is outstanding, that is while the mode is Idle.
C5_SingleRequest == [][Len(sent') > Len(sent) => waiting_for_file = "None"]_vars

\* C6: whenever the mode is AwaitingBook the current item is set and is the
\* item at index 0 of the live queue.
C6_HeadIsCurrent ==
    waiting_for_file = "Book" =>
        /\ current_item # None
        /\ current = current_item
        /\ queue # <<>>
        /\ queue[1] = current_item

\* the steps that execute process_queue: the processor's call (line 348) and
\* request_book's call (line 140)
ProcessQueueStep ==
    \/ procPc = "call" /\ procPc' = "loop"
    \/ guiPc = "request_book_call" /\ guiPc' = "idle"

\* C7: process_queue in mode Idle with a non-empty queue marks the head
\* Downloading, records it as current item in client and Queue Manager, sends
\* that item's command, sets the mode to AwaitingBook and leaves the queue as it
\* is; otherwise it sends nothing and changes no state.
C7_ProcessQueue ==
    [][ProcessQueueStep =>
          IF waiting_for_file = "None" /\ queue # <<>>
          THEN /\ items' = [items EXCEPT ![queue[1]].status = "downloading"]
               /\ current_item' = queue[1]
               /\ current' = queue[1]
               /\ sent' = Append(sent, items[queue[1]].command)
               /\ waiting_for_file' = "Book"
               /\ queue' = queue
               /\ completed' = completed
          ELSE UNCHANGED <<qmVars, clientVars, dccVars, sent,
                           search_in_progress>>]_vars

C7_Started ==
    /\ lastOp = "process_queue"
    /\ waiting_for_file = "Book"
    /\ Len(queue) = 2
    /\ current_item = queue[1]
    /\ current = queue[1]
    /\ Status(queue[1]) = "downloading"
    /\ Status(queue[2]) = "pending"
    /\ sent # <<>> /\ sent[Len(sent)] = items[queue[1]].command
    /\ items[queue[1]].command # items[queue[2]].command

\* request_book's add: exactly one new Pending item with the command
\* "!<user> <filename>" at the tail of the live queue, nothing sent
RequestBookAppends ==
    (guiPc = "idle" /\ guiPc' = "request_book") =>
        LET n == Len(items) + 1
        IN /\ Len(items') = n
           /\ \A i \in 1 .. Len(items) : items'[i] = items[i]
           /\ items'[n].status = "pending"
           /\ items'[n].command = <<"!", items'[n].user, " ", items'[n].filename>>
           /\ queue' = queue \o <<n>>
           /\ UNCHANGED <<sent, waiting_for_file, current_item, current,
                          completed>>

\* request_book in a mode that is not Idle: nothing sent, mode and current item
\* unchanged
RequestBookBusy ==
    (guiPc = "request_book" /\ guiPc' = "idle") =>
        /\ waiting_for_file # "None"
        /\ UNCHANGED <<sent, waiting_for_file, current_item, current, items,
                       queue, completed>>

HeadStarted ==
    /\ queue # <<>>
    /\ waiting_for_file' = "Book"
    /\ items'[queue[1]].status = "downloading"
    /\ current_item' = queue[1]
    /\ sent' = Append(sent, items[queue[1]].command)
    /\ queue' = queue

\* C8 (as claimed): request_book appends one new Pending item at the tail;
\* in mode Idle it performs a queue drain after which the head item is started
\* and the mode is AwaitingBook; in another mode it sends nothing and leaves
\* mode and current item unchanged.
C8_RequestBookStarts ==
    [][/\ RequestBookAppends
       /\ RequestBookBusy
       /\ (guiPc = "request_book_call" /\ guiPc' = "idle") =>
             /\ waiting_for_file' = "Book"
             /\ queue' # <<>>
             /\ items'[queue'[1]].status = "downloading"
             /\ current_item' = queue'[1]]_vars

\* C8 (amended): as above, but the drain starts the head item only if, when
\* process_queue runs, the mode is still Idle and the live queue is non-empty;
\* otherwise the drain changes nothing.
C8_RequestBook ==
    [][/\ RequestBookAppends
       /\ RequestBookBusy
       /\ (guiPc = "request_book_call" /\ guiPc' = "idle") =>
             IF waiting_for_file = "None" /\ queue # <<>>
             THEN HeadStarted
             ELSE UNCHANGED <<sent, waiting_for_file, current_item, current,
                              items, queue, completed>>]_vars

C8_Drained ==
    /\ lastOp = "request_book"
    /\ waiting_for_file = "Book"
    /\ Len(queue) = 2
    /\ queue[2] = Len(items)
    /\ Status(queue[2]) = "pending"
    /\ Status(queue[1]) = "downloading"
    /\ current_item = queue[1]

\* C9: do_search in mode Idle sends "@search <text>", clears the
\* search-complete signal, resets the result slot, leaves the mode
\* AwaitingSearch and touches neither the Queue Manager nor the current item.
C9_DoSearch ==
    [][(Len(spawned') < Len(spawned) /\ waiting_for_file = "None") =>
          /\ \E t \in 1 .. Len(spawned) :
                sent' = Append(sent, <<"@search", " ", spawned[t]>>)
          /\ search_complete' = FALSE
          /\ search_result' = NoPath
          /\ waiting_for_file' = "Search"
          /\ UNCHANGED <<qmVars, current_item>>]_vars

C9_Searching ==
    /\ lastOp = "do_search"
    /\ waiting_for_file = "Search"
    /\ ~search_complete
    /\ search_result = NoPath
    /\ Len(sent) = 2
    /\ sent[1] = <<"@search", " ", "dune">>
    /\ sent[2] = <<"@search", " ", "dune">>

StreamGone == dccConns' # dccConns /\ dccConns' \subseteq dccConns

\* C11: cancelling a search changes nothing in the Queue Manager nor the
\* current item and leaves the mode Idle; a byte-stream that disconnects later,
\* while the mode is still Idle, neither sets the search result nor fires the
\* search-complete signal, and changes nothing in the Queue Manager.
C11_CancelSearch ==
    [][/\ (guiPc = "cancel" /\ guiArg = "Search" /\ guiPc' = "idle") =>
             /\ waiting_for_file' = "None"
             /\ UNCHANGED <<qmVars, current_item>>
       /\ (StreamGone /\ waiting_for_file = "None") =>
             UNCHANGED <<search_result, search_complete, qmVars, current_item>>
      ]_vars

C11_SearchCancelled ==
    /\ lastOp = "cancel_search"
    /\ waiting_for_file = "None"
    /\ dccConns = {1}
    /\ openFiles = {1}
    /\ sent = <<SearchMessage("dune")>>
    /\ search_result = NoPath
    /\ ~search_complete
    /\ waiting = 1
    /\ queue # <<>>

\* C12: the acknowledgement sent after a chunk of a transfer carries the sum
\* of the lengths of the chunks that this transfer has received so far, and
\* goes out on the byte-stream of this transfer.
C12_AckIsRunningSum ==
    [][\A c \in 1 .. Len(streams) :
          (Len(streams') = Len(streams)
           /\ streams'[c].delivered > streams[c].delivered)
            => lastAck' = [conn |-> c, value |-> streams'[c].delivered]]_vars

\* the second step of on_dcc_disconnect
FinalizeStep == dispPc = "finalize" /\ dispPc' = "idle"

\* C13: when the byte-stream disconnects in mode AwaitingBook with a current
\* item, the handler leaves that item Completed, at the end of the history and
\* out of the live queue, both current-item pointers none and the mode Idle.
C13_Completion ==
    [][(FinalizeStep /\ file_type = "Book" /\ current_item # None) =>
          /\ items'[current_item].status = "completed"
          /\ completed' = Append(completed, current_item)
          /\ \A k \in 1 .. Len(queue') : queue'[k] # current_item
          /\ current_item' = None
          /\ current' = None
          /\ waiting_for_file' = "None"]_vars

\* C14: when the byte-stream disconnects in mode AwaitingSearch, the search
\* result is the path of the file of that byte-stream, the search-complete
\* signal is fired, the mode is Idle and the Queue Manager is unchanged.
C14_SearchResult ==
    [][(FinalizeStep /\ file_type = "Search") =>
          /\ search_result' = SavePath(streams[connection].name)
          /\ search_complete' = TRUE
          /\ waiting_for_file' = "None"
          /\ UNCHANGED qmVars]_vars

C16_OwnFileClosed ==
    [][\A c \in dccConns :
          c \notin dccConns' =>
              /\ c \notin openFiles'
              /\ \A f \in openFiles \cap dccConns' : f \in openFiles']_vars

\* C17: the disconnect of a byte-stream that a cancelled download has
\* orphaned does not change the Queue Manager again: no status, not the
\* history, not the live queue, not the current item.  (Which file a
\* disconnect closes is the subject of C16.)
C17_OrphanDiscarded ==
    [][/\ \A c \in dccConns :
             (c \notin dccConns' /\ streams[c].orphaned) => UNCHANGED qmVars
       /\ (FinalizeStep /\ streams[connection].orphaned) =>
             UNCHANGED qmVars]_vars

\* C18: once do_search has returned and the no-matches notice has been
\* delivered (the result is the NoResults sentinel and the search-complete
\* signal is fired), the mode is not AwaitingSearch, in whatever order the
\* steps of do_search and the notice were taken.
C18_NoticeEndsIdle ==
    (/\ spawned = <<>>
     /\ searching = 0
     /\ search_complete
     /\ search_result = NoResults)
        => waiting_for_file # "Search"

\* C19: the mode changes only along Idle -> AwaitingSearch, Idle ->
\* AwaitingBook, AwaitingSearch -> Idle and AwaitingBook -> Idle; and in mode
\* AwaitingBook or Idle an inbound event that is no DCC event (a step that moves
\* no thread, sends nothing, and leaves queue and streams as they are) leaves
\* mode, current item, search result and search-complete signal unchanged.
C19_ListedTransitions ==
    [][/\ waiting_for_file' # waiting_for_file =>
             <<waiting_for_file, waiting_for_file'>> \in
                 {<<"None", "Search">>, <<"None", "Book">>,
                  <<"Search", "None">>, <<"Book", "None">>}
       /\ (/\ waiting_for_file \in {"Book", "None"}
           /\ UNCHANGED <<qmVars, dccVars, streams, search_in_progress, sent,
                          threadVars>>)
             => UNCHANGED <<waiting_for_file, current_item, search_result,
                            search_complete>>]_vars

\* the events the claim calls malformed or misaddressed
Malformed(target, payload) ==
    \/ target # bot_nick
    \/ ~HasSend(payload)
    \/ Len(payload) # 5
    \/ payload[1] # "SEND"

\* C20: a DCC SEND payload with fewer than 5 tokens, with another token count
\* or with a first token other than SEND, a CTCP event for another target and a
\* payload without SEND are dropped: whatever the system would make of the
\* transfer, no file is opened, no byte-stream is connected, and byte counters,
\* latest filename, file handle and connection stay as they are.  (Mode and
\* current item are written by no branch of on_ctcp.)
C20_MalformedDropped ==
    \A e \in AllCtcpEvents, o \in Outcomes :
        Malformed(e[1], e[2]) => on_ctcp_result(e[1], e[2], o) = dcc_state

C20_DroppedMidTransfer ==
    /\ waiting_for_file = "Book"
    /\ current_item # None
    /\ dccConns = {1}
    /\ openFiles = {1}
    /\ received_bytes = 1
    /\ total_bytes = 2
    /\ \E e \in CtcpEvents :
          /\ Malformed(e[1], e[2])
          /\ Len(e[2]) < 5
          /\ ENABLED OnCtcp(e[1], e[2], "ok")
          /\ on_ctcp_result(e[1], e[2], "ok") = dcc_state

\* a step of on_ctcp on which a well-formed DCC SEND reaches open() and open()
\* fails
OpenFails ==
    \E e \in CtcpEvents :
        /\ on_ctcp_path(e[1], e[2]) = "proceed"
        /\ OnCtcp(e[1], e[2], "open_fail")

\* C21: when the open of the destination file fails while a DCC SEND is
\* handled in mode AwaitingSearch or AwaitingBook, the handler leaves the mode
\* Idle.
C21_OpenFailureResets ==
    [][(OpenFails /\ waiting_for_file # "None")
          => waiting_for_file' = "None"]_vars

\* C22: no exception raised while a transport event is handled leaves the
\* handler: the dispatch loop never sees one, whatever the event, the state of
\* the client and the outcome of the write.
C22_HandlersReturn == dispPc # "raised"

\* the step on which get_download_progress returns or raises
ProgressEnds ==
    guiPc \in {"progress_divide", "progress_return"} /\ guiPc' = "idle"

\* C23: get_download_progress never fails and returns (received, total,
\* percentage), the two counters as they are at one moment and the percentage
\* that belongs to them: 0 when total is 0, 100 * received / total otherwise.
C23_Progress ==
    [][ProgressEnds =>
          progress'.ret =
              <<received_bytes', total_bytes',
                IF total_bytes' = 0 THEN 0
                ELSE (100 * received_bytes') \div total_bytes'>>]_vars

\* the step on which the caller runs the body of operation op
Calls(op) == call.pc = "done" /\ call'.pc = "locked" /\ call'.op = op

\* the step on which the call of operation op returns
Returns(op) == call.pc = "locked" /\ call'.pc = "done" /\ call.op = op

\* C24: every mark_completed(item, success) sets the status of the item to
\* Completed or Failed, makes the history one longer, and makes the live queue
\* one shorter if and only if the item was the head; otherwise the live queue
\* is unchanged.
C24_MarkCompleted ==
    [][Calls("mark_completed") =>
          LET item == call'.arg
          IN /\ items'[item].status =
                    IF call'.success THEN "completed" ELSE "failed"
             /\ Len(completed') = Len(completed) + 1
             /\ IF queue # <<>> /\ queue[1] = item
                THEN Len(queue') = Len(queue) - 1
                ELSE queue' = queue]_vars

\* C25: in every Queue Manager state, get_current() called right after
\* mark_completed(item, success=True) has returned returns none.
C25_CurrentNoneAfterCompletion ==
    [][(/\ call.op = "mark_completed"
        /\ call.success
        /\ Calls("get_current")) => call'.ret = None]_vars

\* every registered callback, once, in order of registration
AllCallbacks == [i \in 1 .. Len(callbacks) |-> i]

\* C26: remove(i), move_up(i) and move_down(i) return false, change nothing
\* and notify nobody when the index is out of range (negative, past the end,
\* move_up(0), move_down of the last index); otherwise they return true, have
\* removed exactly item i or swapped it with its neighbour and nothing else,
\* and the callbacks are notified.
C26_IndexedMutations ==
    [][/\ Calls("remove") =>
             LET i == call'.arg
             IN /\ call'.ret = (0 <= i /\ i < Len(queue))
                /\ queue' = IF call'.ret THEN RemoveAt(queue, i + 1) ELSE queue
                /\ UNCHANGED <<items, completed, current>>
       /\ Calls("move_up") =>
             LET i == call'.arg
             IN /\ call'.ret = (1 <= i /\ i < Len(queue))
                /\ queue' = IF call'.ret
                            THEN [queue EXCEPT ![i + 1] = queue[i],
                                               ![i] = queue[i + 1]]
                            ELSE queue
                /\ UNCHANGED <<items, completed, current>>
       /\ Calls("move_down") =>
             LET i == call'.arg
             IN /\ call'.ret = (0 <= i /\ i < Len(queue) - 1)
                /\ queue' = IF call'.ret
                            THEN [queue EXCEPT ![i + 1] = queue[i + 2],
                                               ![i + 2] = queue[i + 1]]
                            ELSE queue
                /\ UNCHANGED <<items, completed, current>>
       /\ (Returns("remove") \/ Returns("move_up") \/ Returns("move_down")) =>
             /\ call'.notified = IF call.ret THEN AllCallbacks ELSE <<>>
             /\ call'.ret = call.ret
             /\ UNCHANGED qmVars]_vars

C26_Swapped ==
    /\ call.op = "move_down"
    /\ call.pc = "done"
    /\ call.arg = 0
    /\ call.ret = TRUE
    /\ queue = <<2, 1>>
    /\ Len(callbacks) = 2
    /\ call.notified = <<1, 2>>

\* C27: every call that changes the state of the Queue Manager (add,
\* peek_next's change of status, mark_completed, remove, move_up, move_down,
\* set_current, clear) notifies every registered callback when it returns, and
\* no callback is called while the lock is held: inside the with-block nobody
\* is notified, and the lock is free once the callbacks have been called.
C27_MutationsNotify ==
    [][/\ (call.pc = "done" /\ call'.pc = "locked") =>
             /\ call'.notified = <<>>
             /\ qmVars' # qmVars => notifies(call'.op, call'.ret)
       /\ (call.pc = "locked" /\ call'.pc = "done") =>
             /\ notifies(call.op, call.ret) => call'.notified = AllCallbacks
             /\ call'.notified # <<>> => ~qm_lock']_vars

\* C28: whichever registered callbacks raise during a notification, every
\* registered callback is called once, the exception reaches nobody, the
\* operation returns what it returns, and its mutation stays applied.
C28_CallbackIsolation ==
    [][(/\ call.pc = "locked"
        /\ call'.pc = "done"
        /\ notifies(call.op, call.ret)) =>
          /\ call'.notified = AllCallbacks
          /\ ~call'.raised
          /\ call'.ret = call.ret
          /\ UNCHANGED qmVars]_vars

C28_FirstCallbackRaised ==
    /\ call.op = "add"
    /\ call.pc = "done"
    /\ call.raising = {1}
    /\ call.notified = <<1, 2>>
    /\ ~call.raised
    /\ queue = <<1, 2>>

\* C29: clear() leaves the live queue empty and the history as it was; and no
\* operation of the Queue Manager removes or reorders history entries: the
\* history after a step starts with the history before it.
C29_HistoryAppendOnly ==
    [][/\ Calls("clear") => queue' = <<>> /\ completed' = completed
       /\ Len(completed') >= Len(completed)
       /\ SubSeq(completed', 1, Len(completed)) = completed]_vars

C29_Cleared ==
    /\ call.op = "clear"
    /\ call.pc = "done"
    /\ queue = <<>>
    /\ completed = <<2, 1>>
    /\ current = 1
    /\ call.notified = <<1, 2>>

\* the items of q are in the order in which they were added
InAddOrder(q) == \A i, j \in 1 .. Len(q) : i < j => q[i] < q[j]

\* C30: peek_next returns none iff the live queue is empty and otherwise the
\* item at index 0 of the live queue as the calls before it have left it, and
\* changes neither length nor order of the queue; and no call other than
\* remove, move_up and move_down takes the live queue out of the order in which
\* the items were added, so that without them peek_next returns the items in
\* that order.
C30_PeekNextFifo ==
    [][/\ Calls("peek_next") =>
             /\ call'.ret = IF queue = <<>> THEN None ELSE queue[1]
             /\ queue' = queue
       /\ (/\ ~(Calls("remove") \/ Calls("move_up") \/ Calls("move_down"))
           /\ InAddOrder(queue)) => InAddOrder(queue')]_vars

C30_PeekAfterMove ==
    /\ call.op = "peek_next"
    /\ call.pc = "done"
    /\ queue = <<2, 1>>
    /\ call.ret = 2
    /\ Status(2) = "downloading"
    /\ Status(1) = "pending"

\* the step on which process_queue starts the head item
StartsHead == ProcessQueueStep /\ waiting_for_file = "None" /\ queue # <<>>

\* C31: no failed transfer is retried: process_queue never starts, and never
\* sends the command of, an item whose status is already Failed or Completed.
C31_NoRetry ==
    [][StartsHead => Status(queue[1]) \notin {"failed", "completed"}]_vars

\* C35: the command of a queue item is sent at most once.  An item is Pending
\* until its command is sent and never Pending again, so every command that
\* process_queue sends is that of an item that is still Pending.
C35_SentOnce == [][StartsHead => Status(queue[1]) = "pending"]_vars

\* C36: the disconnect of the byte-stream of a cancelled download, arriving
\* when the next item has been started, does not mark that item Completed,
\* does not take it out of the live queue and does not set the mode to Idle.
C36_LateDisconnect ==
    [][/\ \A c \in dccConns :
             (/\ c \notin dccConns'
              /\ streams[c].orphaned
              /\ waiting_for_file = "Book"
              /\ current_item # None) => waiting_for_file' = "Book"
       /\ (/\ FinalizeStep
           /\ streams[connection].orphaned
           /\ current_item # None) =>
             /\ items'[current_item].status = Status(current_item)
             /\ queue' = queue
             /\ current_item' = current_item]_vars

\* C37: the disconnect of a byte-stream that an earlier, cancelled request has
\* left behind neither sets the search result nor fires the search-complete
\* signal of the search that is outstanding then.
C37_NoLateSearchResult ==
    [][(FinalizeStep /\ streams[connection].orphaned /\ file_type = "Search")
          => UNCHANGED <<search_result, search_complete>>]_vars

\* C38: while the mode is Idle no step opens a destination file or connects a
\* DCC byte-stream, whatever CTCP event arrives.
C38_NoUnsolicitedTransfer ==
    [][waiting_for_file = "None" =>
          /\ openFiles' \subseteq openFiles
          /\ dccConns' \subseteq dccConns]_vars

\* C39: no item is in the live queue and in the history at once, and no item is
\* in the history twice.
C39_QueueHistoryDisjoint ==
    /\ \A k \in 1 .. Len(queue), h \in 1 .. Len(completed) :
          queue[k] # completed[h]
    /\ \A g, h \in 1 .. Len(completed) : g # h => completed[g] # completed[h]

\* the processor's call of process_queue (line 348) returns
ProcCallStep == procPc = "call" /\ procPc' = "loop"

\* the model can send no further message
SentFull == Len(sent) = MaxSent

\* C32: while the Queue Processor has not been stopped, the mode does not stay
\* Idle with a non-empty live queue for ever (MaxSent messages at most are
\* followed): the processor calls process_queue, and its call in that state
\* starts the head item, which is Downloading and current in mode AwaitingBook.
C32_ProcessorLive ==
    /\ []<>(\/ waiting_for_file # "None"
            \/ queue = <<>>
            \/ stop_event
            \/ SentFull)
    /\ [][(ProcCallStep /\ waiting_for_file = "None" /\ queue # <<>>) =>
             /\ waiting_for_file' = "Book"
             /\ queue' = queue
             /\ items'[queue[1]].status = "downloading"
             /\ current_item' = queue[1]
             /\ Len(sent') = Len(sent) + 1]_vars

\* the Queue Processor has started the second of two items
C32_ProcessorStartedNext ==
    /\ lastOp = "process_queue"
    /\ procPc = "loop"
    /\ Len(completed) = 1
    /\ Len(queue) = 1
    /\ current_item = queue[1]
    /\ waiting_for_file = "Book"

\* the processor's call of process_queue cannot return: the head item is to be
\* started and the model can send no further message
CallAtBound ==
    procPc = "call" /\ waiting_for_file = "None" /\ queue # <<>> /\ SentFull

\* C33: stop only sets the event and changes nothing else; an iteration that is
\* inside process_queue is finished, whether or not the event is set; once the
\* event is set no new iteration tests the queue, the thread ends (MaxSent
\* messages at most are followed) and, ended, stays so and starts no item.
C33_CooperativeStop ==
    /\ [][(~stop_event /\ stop_event') =>
             UNCHANGED <<procPc, qmVars, clientVars, sent>>]_vars
    /\ [][procPc = "call" => procPc' \in {"call", "loop"}]_vars
    /\ [][(stop_event /\ procPc = "loop") =>
             procPc' \in {"loop", "stopped"}]_vars
    /\ [][procPc = "stopped" =>
             (procPc' = "stopped" /\ lastOp' # "process_queue")]_vars
    /\ [][stop_event => stop_event']_vars
    /\ (stop_event ~> (procPc = "stopped" \/ CallAtBound))

\* stop was called while the processor was inside an iteration, after its
\* tests: the iteration has just finished its call of process_queue, which has
\* started the head item, and the loop will end at its next test
C33_StoppedDuringIteration ==
    /\ stop_event
    /\ procPc = "loop"
    /\ lastOp = "process_queue"
    /\ waiting_for_file = "Book"
    /\ current_item # None

\* every item added so far is in the history, Completed or Failed, and the live
\* queue is empty
Resolved ==
    /\ queue = <<>>
    /\ \A i \in 1 .. Len(items) :
          /\ \E h \in 1 .. Len(completed) : completed[h] = i
          /\ Status(i) \in {"completed", "failed"}

\* the model can follow the run no further: the head item is to be started
\* and MaxSent messages have been sent, or a book command is to be answered
\* and MaxSends files have been opened
AtBound ==
    \/ waiting_for_file = "None" /\ queue # <<>> /\ SentFull
    \/ waiting_for_file = "Book" /\ dccConns = {} /\ nSend = MaxSends

\* C40: with a running Queue Processor and dispatch thread and answering
\* peers, and a queue that is not reordered, every item added is in the history
\* as Completed or Failed and the live queue is empty, again and again and for
\* good once no item is added any more (as far as MaxSent messages and
\* MaxSends transfers reach).
C40_Resolution == []<>(Resolved \/ AtBound)

\* two items have been added and both transfers have completed
C40_BothResolved ==
    /\ Len(items) = 2
    /\ Resolved
    /\ \A i \in 1 .. 2 : Status(i) = "completed"
    /\ waiting_for_file = "None"

\* thread t waits for a lock that has an owner
LockWanted(t) ==
    IF locks.todo[t] # <<>> /\ Head(locks.todo[t])[1] = "acquire"
    THEN Head(locks.todo[t])[2] ELSE "none"
LockBlocked(t) ==
    LockWanted(t) # "none" /\ locks.owner[LockWanted(t)] # "free"

\* C34: no thread owns both mutexes at once; a thread that waits for a lock
\* waits for another thread, and that thread is not waiting itself (with two
\* locks: no cycle of waiting threads); and no thread wants a lock for ever:
\* every acquisition succeeds.
C34_LocksNeverNested ==
    /\ [](\A t \in Threads :
             ~(locks.owner["client"] = t /\ locks.owner["qm"] = t))
    /\ [](\A t \in Threads :
             LockBlocked(t) =>
                /\ locks.owner[LockWanted(t)] # t
                /\ ~LockBlocked(locks.owner[LockWanted(t)]))
    /\ \A t \in Threads : []<>(LockWanted(t) = "none")

\* the dispatch thread is inside mark_completed of on_dcc_disconnect, the GUI
\* thread waits for the Queue Manager's lock and the processor owns the
\* client's lock
C34_Contended ==
    /\ locks.owner["qm"] = "dispatch"
    /\ Len(locks.todo["dispatch"]) = 3
    /\ LockBlocked("gui")
    /\ locks.owner["client"] = "processor"

====
